---------------------------- MODULE Spec2Model ----------------------------
(***************************************************************************)
(* A model of rtdl's data-processing functions (src/rtdl/data.py):         *)
(* _adjust_bin_counts, compute_quantile_bin_edges,                         *)
(* compute_decision_tree_bin_edges, compute_bin_indices,                   *)
(* compute_piecewise_linear_bin_values, _LVR_encoding,                     *)
(* ordinal_binary_encoding, piecewise_linear_encoding and                  *)
(* get_category_sizes; and of the constructor and forward of               *)
(* rtdl.nn.Transformer (src/rtdl/nn/_backbones.py), on tensor shapes.      *)
(*                                                                         *)
(* The state is one call (the function's name and the caller's arguments), *)
(* the program counter of that call and its result.  Init draws the        *)
(* arguments from bounded sets; one action per function applies it and     *)
(* gives the caller's arrays as the call's assignments into tensors leave  *)
(* them.  Two further actions pass the result of one call on as an         *)
(* argument of the next one, the way the pipeline 4.2 -> 4.3 -> 4.6 is     *)
(* used.  Transformer.forward is given as an operator only: no call of the *)
(* constructor returns a module to call it on.                             *)
(*                                                                         *)
(* Numbers.  A scalar is an exact rational [n, d] in lowest terms with     *)
(* d > 0; d = 0 is reserved for the IEEE values +inf (n = 1), -inf         *)
(* (n = -1) and NaN (n = 0).  Floating-point rounding is not modelled.     *)
(* A tensor is [backend, dtype, shape, data] with data in row-major order; *)
(* the edge sequences are 1-D tensors of X's dtype, given by their data.    *)
(***************************************************************************)
EXTENDS Integers, Sequences, FiniteSets

VARIABLES op, args, pc, ret, fitted

vars == <<op, args, pc, ret, fitted>>

(***************************************************************************)
(* Bounds of the model.                                                    *)
(***************************************************************************)
\* Feature values range over -1 .. MaxVal, bin edges over 0 .. MaxVal - 1.
MaxVal == 4
\* An edge sequence has at most MaxBins bins (MaxBins + 1 edges);
\* d_encoding ranges over 1 .. MaxBins.
MaxBins == 3
\* Caller-supplied bin indices range over -MaxIdx .. MaxIdx.
MaxIdx == 3
\* A Transformer has up to MaxBlocks blocks.
MaxBlocks == 2

(***************************************************************************)
(* Scalars: exact rationals and the IEEE infinities.                       *)
(***************************************************************************)
Abs(x) == IF x < 0 THEN -x ELSE x

RECURSIVE GCD(_, _)
GCD(a, b) == IF b = 0 THEN a ELSE GCD(b, a % b)

NaN == [n |-> 0, d |-> 0]

Rat(n, d) ==
    IF n = 0 /\ d = 0 THEN NaN
    ELSE LET g == GCD(Abs(n), Abs(d))
             s == IF d < 0 THEN -1 ELSE 1
         IN  [n |-> (s * n) \div g, d |-> (s * d) \div g]

IntScalar(k) == [n |-> k, d |-> 1]

Inf == [n |-> 1, d |-> 0]

Neg(a) == [n |-> -a.n, d |-> a.d]

IsFinite(a) == a.d > 0

IsInteger(a) == a.d = 1

\* a < b; every comparison with NaN is false.
Less(a, b) ==
    IF a = NaN \/ b = NaN THEN FALSE
    ELSE IF a.d = 0 /\ b.d = 0 THEN a.n < b.n
    ELSE a.n * b.d < b.n * a.d

LessEq(a, b) == a # NaN /\ b # NaN /\ ~Less(b, a)

\* a + b; inf + inf is inf, inf + -inf is NaN.
Add(a, b) ==
    IF a.d = 0 /\ b.d = 0
    THEN IF a.n = b.n THEN a ELSE NaN
    ELSE Rat(a.n * b.d + b.n * a.d, a.d * b.d)

\* a - b; inf - -inf is inf, inf - inf is NaN.
Sub(a, b) == Add(a, Neg(b))

Mul(a, b) == Rat(a.n * b.n, a.d * b.d)

\* torch's true division: x / 0 is +-inf, 0 / 0 and inf / inf are NaN; the
\* sign of the quotient is that of x times that of the divisor.
Div(a, b) ==
    LET sign == IF b.n < 0 THEN -1 ELSE 1
    IN  Rat(sign * a.n * b.d, a.d * sign * b.n)

(***************************************************************************)
(* str(...) of a class and of a dtype, as sequences of characters, and     *)
(* Python's substring test `a in b`.                                       *)
(***************************************************************************)
ClassName(cls) ==
    CASE cls = "int" -> <<"i", "n", "t">>
      [] cls = "float" -> <<"f", "l", "o", "a", "t">>

DtypeName(dtype) ==
    CASE dtype = "float32" -> <<"f", "l", "o", "a", "t", "3", "2">>
      [] dtype = "float64" -> <<"f", "l", "o", "a", "t", "6", "4">>
      [] dtype = "int64" -> <<"i", "n", "t", "6", "4">>
      [] dtype = "uint8" -> <<"u", "i", "n", "t", "8">>
      [] dtype = "bool" -> <<"b", "o", "o", "l">>

\* str(type(x)), e.g. <class 'float'>
str_type(cls) ==
    <<"<", "c", "l", "a", "s", "s", " ", "'">> \o ClassName(cls) \o <<"'", ">">>

\* str(dtype) of a torch.dtype, e.g. torch.float32
str_dtype(dtype) == <<"t", "o", "r", "c", "h", ".">> \o DtypeName(dtype)

\* sub in s
Contains(sub, s) ==
    \E i \in 0..(Len(s) - Len(sub)) : SubSeq(s, i + 1, i + Len(sub)) = sub

(***************************************************************************)
(* Tensors and arrays: [backend, dtype, shape, data], data in row-major    *)
(* order; backend is "numpy" for an np.ndarray, "torch" for a Tensor.      *)
(***************************************************************************)
Tensor(backend, dtype, shape, data) ==
    [backend |-> backend, dtype |-> dtype, shape |-> shape, data |-> data]

NoTensor == Tensor("none", "none", <<>>, <<>>)

isinstance_Tensor(t) == t.backend = "torch"

as_tensor(t) == [t EXCEPT !.backend = "torch"]

numpy(t) == [t EXCEPT !.backend = "numpy"]

ndim(t) == Len(t.shape)

\* Entry (o, f) of a 2-D tensor, 1-based.
At(t, o, f) == t.data[(o - 1) * t.shape[2] + f]

\* X.T[c]: column c of a 2-D tensor.
Column(t, c) == [o \in 1..t.shape[1] |-> At(t, o, c)]

\* torch.stack(columns, 1): out[o, c] = columns[c][o], row-major.
stack_1(columns, n_rows) ==
    LET n_cols == Len(columns)
    IN  [k \in 1..(n_rows * n_cols) |->
            columns[((k - 1) % n_cols) + 1][((k - 1) \div n_cols) + 1]]

\* A dtype is floating-point / integral (torch.bucketize, indexing, division).
IsFloatDtype(dtype) == dtype \in {"float32", "float64"}

IsIntDtype(dtype) == dtype \in {"int64", "uint8"}

\* What t[index] does with an index tensor of the dtype: an int64 tensor
\* holds positions, a uint8 or bool tensor is a mask, any other is refused.
IsPositionDtype(dtype) == dtype = "int64"

IsMaskDtype(dtype) == dtype \in {"uint8", "bool"}

(***************************************************************************)
(* Results: a returned tensor, or the exception the call raised.           *)
(***************************************************************************)
NoResult == [ok |-> FALSE, err |-> "none", msg |-> "", out |-> NoTensor]

Raise(err, msg) == [ok |-> FALSE, err |-> err, msg |-> msg, out |-> NoTensor]

\* The tensor returned as it is, without `.numpy()`.
Return_tensor(is_torch, t) ==
    [ok |-> TRUE, err |-> "none", msg |-> "", out |-> t]

\* `x if is_torch else x.numpy()`
Return(is_torch, t) ==
    [ok |-> TRUE, err |-> "none", msg |-> "",
     out |-> IF is_torch THEN t ELSE numpy(t)]

(***************************************************************************)
(* Memory: the storage a tensor lives in is one of the caller's arrays,    *)
(* named by the argument that holds it, or memory the call allocated. An   *)
(* assignment into a tensor writes the tensor's storage.                   *)
(***************************************************************************)
NewStorage == "new"

\* as_tensor(x): the tensor shares the memory of the caller's numpy array,
\* or is the caller's tensor.
as_tensor_storage(argument) == argument

\* Bounds that are the tensor itself instead of a tensor like it.
like_storage_shared(storage) == storage

\* torch.zeros_like(t), torch.ones_like(t): allocated by the call.
like_storage(storage) == NewStorage

\* torch.where(...): allocated by the call.
where_storage == NewStorage

\* An assignment into a tensor: the storage written and its contents after.
Write(storage, data) == [storage |-> storage, data |-> data]

\* The caller's array held by `argument` after the writes of a call, in
\* program order: the last write into its storage decides.
Written(argument, t, writes) ==
    LET hits == {i \in DOMAIN writes : writes[i].storage = argument}
    IN  IF hits = {} THEN t
        ELSE [t EXCEPT !.data = writes[CHOOSE i \in hits : \A j \in hits : j <= i].data]

(***************************************************************************)
(* compute_bin_indices                                                     *)
(***************************************************************************)
\* The binary search of torch.bucketize(v, boundaries, right=True): the
\* first position (0-based) whose boundary is > v.
RECURSIVE upper_bound(_, _, _, _)
upper_bound(bd, val, start, end) ==
    IF start < end
    THEN LET mid == start + ((end - start) \div 2)
         IN  IF ~Less(val, bd[mid + 1])
             THEN upper_bound(bd, val, mid + 1, end)
             ELSE upper_bound(bd, val, start, mid)
    ELSE start

\* The search of right=False: the first position whose boundary is >= v.
RECURSIVE lower_bound(_, _, _, _)
lower_bound(bd, val, start, end) ==
    IF start < end
    THEN LET mid == start + ((end - start) \div 2)
         IN  IF ~LessEq(val, bd[mid + 1])
             THEN lower_bound(bd, val, mid + 1, end)
             ELSE lower_bound(bd, val, start, mid)
    ELSE start

bucketize_left(val, boundaries) == lower_bound(boundaries, val, 0, Len(boundaries))

\* torch.bucketize(val, boundaries, right=True)
bucketize(val, boundaries) == upper_bound(boundaries, val, 0, Len(boundaries))

boundaries_all_edges(column_bin_edges) == <<Neg(Inf)>> \o column_bin_edges \o <<Inf>>

\* torch.cat((neg_inf, column_bin_edges[1:-1], inf))
bin_boundaries(column_bin_edges) ==
    <<Neg(Inf)>> \o SubSeq(column_bin_edges, 2, Len(column_bin_edges) - 1) \o <<Inf>>

compute_bin_indices(X0, bin_edges) ==
    LET is_torch == isinstance_Tensor(X0)
        X == as_tensor(X0)
    IN  IF ndim(X) # 2
        THEN Raise("ValueError", "X must have two dimensions")
        ELSE IF X.shape[2] # Len(bin_edges)
        THEN Raise("ValueError", "The number of columns in X must be equal to the size of the bin_edges list")
        ELSE IF ~IsFloatDtype(X.dtype)
        THEN \* torch.tensor([math.inf], dtype=X.dtype) with an integer dtype
             Raise("RuntimeError", "value cannot be converted without overflow")
        ELSE LET bin_indices_list ==
                     [c \in 1..X.shape[2] |->
                         [o \in 1..X.shape[1] |->
                             IntScalar(bucketize(At(X, o, c), bin_boundaries(bin_edges[c])) - 1)]]
                 bin_indices == Tensor("torch", "int64", X.shape, stack_1(bin_indices_list, X.shape[1]))
             IN  Return(is_torch, bin_indices)

(***************************************************************************)
(* compute_piecewise_linear_bin_values                                     *)
(***************************************************************************)
\* t[i] of a 1-D tensor for a Python index i: a negative i counts from the end.
InIndexRange(seq, i) == -Len(seq) <= i /\ i < Len(seq)

PyIndex(seq, i) == IF i >= 0 THEN seq[i + 1] ELSE seq[Len(seq) + i + 1]

bin_value_clamped(x, left_edge, right_edge) ==
    LET v == Div(Sub(x, left_edge), Sub(right_edge, left_edge))
    IN  IF Less(v, IntScalar(0)) THEN IntScalar(0)
        ELSE IF Less(IntScalar(1), v) THEN IntScalar(1) ELSE v

\* (c_values - c_left_edges) / (c_right_edges - c_left_edges), one entry
bin_value(x, left_edge, right_edge) ==
    Div(Sub(x, left_edge), Sub(right_edge, left_edge))

\* c_indices + 1, one entry, and its dtype: a uint8 wraps around at 256, a
\* bool becomes an int64.
plus_one(dtype, i) ==
    IF dtype = "uint8" THEN IntScalar((i.n + 1) % 256) ELSE Add(i, IntScalar(1))

plus_one_dtype(dtype) == IF dtype = "bool" THEN "int64" ELSE dtype

\* t[mask]: the entries of t at which the mask is not zero.
RECURSIVE mask_select(_, _)
mask_select(t, mask) ==
    IF t = <<>> THEN <<>>
    ELSE (IF Head(mask) # IntScalar(0) THEN <<Head(t)>> ELSE <<>>)
            \o mask_select(Tail(t), Tail(mask))

\* t[index] of a 1-D tensor t: the exception it raises or "none", and the
\* entries it selects.
index_select(t, index, dtype) ==
    IF IsMaskDtype(dtype)
    THEN IF Len(index) # Len(t)
         THEN [err |-> "IndexError", out |-> <<>>]
         ELSE [err |-> "none", out |-> mask_select(t, index)]
    ELSE IF ~IsPositionDtype(dtype)
    THEN [err |-> "IndexError", out |-> <<>>]
    ELSE IF \E o \in DOMAIN index : ~InIndexRange(t, index[o].n)
    THEN [err |-> "IndexError", out |-> <<>>]
    ELSE [err |-> "none", out |-> [o \in DOMAIN index |-> PyIndex(t, index[o].n)]]

\* The size two 1-D tensors of sizes a and b broadcast to, -1 if they do not.
broadcast(a, b) ==
    IF a < 0 \/ b < 0 THEN -1
    ELSE IF a = b \/ b = 1 THEN a
    ELSE IF a = 1 THEN b
    ELSE -1

\* Entry o of a 1-D tensor broadcast to a larger size.
Broadcast(t, o) == IF Len(t) = 1 THEN t[1] ELSE t[o]

\* The loop body for column c: the exception it raises or "none", and the
\* values it appends.
plbv_column(X, indices, bin_edges, c) ==
    LET c_values == Column(X, c)
        c_indices == Column(indices, c)
        c_bin_edges == bin_edges[c]
        c_next == [o \in DOMAIN c_indices |-> plus_one(indices.dtype, c_indices[o])]
        c_left_edges == index_select(c_bin_edges, c_indices, indices.dtype)
        c_right_edges == index_select(c_bin_edges, c_next, plus_one_dtype(indices.dtype))
        size == broadcast(broadcast(Len(c_values), Len(c_left_edges.out)),
                          broadcast(Len(c_right_edges.out), Len(c_left_edges.out)))
    IN  IF \E o \in DOMAIN c_next : LessEq(IntScalar(Len(c_bin_edges)), c_next[o])
        THEN [err |-> "ValueError", values |-> <<>>]
        ELSE IF c_left_edges.err # "none"
        THEN [err |-> c_left_edges.err, values |-> <<>>]
        ELSE IF c_right_edges.err # "none"
        THEN [err |-> c_right_edges.err, values |-> <<>>]
        ELSE IF size < 0
        THEN [err |-> "RuntimeError", values |-> <<>>]
        ELSE [err |-> "none",
              values |-> [o \in 1..size |->
                             bin_value(Broadcast(c_values, o),
                                       Broadcast(c_left_edges.out, o),
                                       Broadcast(c_right_edges.out, o))]]

compute_piecewise_linear_bin_values(X0, indices0, bin_edges) ==
    LET is_torch == isinstance_Tensor(X0)
        X == as_tensor(X0)
        indices == as_tensor(indices0)
    IN  IF ndim(X) # 2
        THEN Raise("ValueError", "X must have two dimensions")
        ELSE IF X.shape # indices.shape
        THEN Raise("ValueError", "X and indices must be of the same shape")
        ELSE IF X.shape[2] # Len(bin_edges)
        THEN Raise("ValueError", "The number of columns in X must be equal to the number of items in bin_edges")
        ELSE LET columns == [c \in 1..X.shape[2] |-> plbv_column(X, indices, bin_edges, c)]
                 failing == {c \in DOMAIN columns : columns[c].err # "none"}
             IN  IF failing # {}
                 THEN LET c == CHOOSE c \in failing : \A c2 \in failing : c <= c2
                          err == columns[c].err
                      IN  IF err = "ValueError"
                          THEN Raise("ValueError", "The indices are not compatible with bin_edges")
                          ELSE IF err = "IndexError"
                          THEN Raise("IndexError", "index out of range")
                          ELSE Raise("RuntimeError", "The size of tensor a must match the size of tensor b")
                 ELSE IF \E c \in DOMAIN columns : Len(columns[c].values) # Len(columns[1].values)
                 THEN Raise("RuntimeError", "stack expects each tensor to be equal size")
                 ELSE LET values_list == [c \in DOMAIN columns |-> columns[c].values]
                          n_values == Len(values_list[1])
                          values == Tensor("torch",
                                           IF IsFloatDtype(X.dtype) THEN X.dtype ELSE "float32",
                                           <<n_values, X.shape[2]>>, stack_1(values_list, n_values))
                      IN  Return(is_torch, values)

(***************************************************************************)
(* _LVR_encoding and its helpers                                           *)
(***************************************************************************)
\* A Python scalar: its class and its value.
PyScalar(cls, val) == [type |-> cls, val |-> val]

\* Scalar(k) for Scalar = int or float
Scalar(cls, k) == PyScalar(cls, IntScalar(k))

\* The dtype argument is [family, name]: a torch.dtype, or a numpy scalar
\* class, whose __name__ names the torch dtype.
_get_torch_dtype(dtype) == dtype.name

_get_scalar_class(dtype) ==
    IF Contains(ClassName("int"), str_dtype(dtype)) THEN "int"
    ELSE IF Contains(ClassName("float"), str_dtype(dtype)) THEN "float"
    ELSE "unsupported dtype"

\* The name of the fills' class is part of the dtype's name.
fills_compatible_by_name(left, dtype) == Contains(ClassName(left.type), str_dtype(dtype))

\* not (str(type(left)) not in str(values.dtype))
fills_compatible(left, dtype) == Contains(str_type(left.type), str_dtype(dtype))

\* Entry (o, f, p) of the encoding, p 0-based: torch.where on left_mask, then
\* the assignment of values at the positions `indices` (negative ones wrap).
lvr_entry(values, indices, d_encoding, left, right, o, f, p) ==
    LET i == At(indices, o, f)
        at == IF i.n >= 0 THEN i.n ELSE d_encoding + i.n
    IN  IF p = at THEN At(values, o, f)
        ELSE IF Less(IntScalar(p), i) THEN left.val
        ELSE right.val

\* The positions, counted from 0, at which a mask is not zero.
nonzero(mask) == mask_select([k \in DOMAIN mask |-> k - 1], mask)

\* Entry (o, f, p) when `indices` is a mask over the d_encoding positions:
\* the assignment goes to the positions at which the mask is not zero.
lvr_mask_entry(values, indices, left, right, o, f, p) ==
    LET positions == nonzero(indices.data)
        k == (o - 1) * values.shape[2] + f
    IN  IF positions # <<>> /\ Broadcast(positions, k) = p THEN At(values, o, f)
        ELSE IF Less(IntScalar(p), At(indices, o, f)) THEN left.val
        ELSE right.val

_LVR_encoding(values0, indices0, d_encoding, left, right) ==
    LET is_torch == isinstance_Tensor(values0)
        values == as_tensor(values0)
        indices == as_tensor(values0)
    IN  IF left.type # right.type
        THEN Raise("ValueError", "left and right must be of the same type")
        ELSE IF ~fills_compatible(left, values.dtype)
        THEN Raise("ValueError", "The values array has dtype incompatible with left and right")
        ELSE IF ndim(values) # 2
        THEN Raise("ValueError", "values must have two dimensions")
        ELSE IF values.shape # indices.shape
        THEN Raise("ValueError", "values and indices must be of the same shape")
        ELSE IF \E k \in DOMAIN indices.data : ~Less(indices.data[k], IntScalar(d_encoding))
        THEN Raise("ValueError", "All indices must be less than d_encoding")
        ELSE IF IsMaskDtype(indices.dtype)
        THEN \* encoding[..., indices.flatten()] with a mask of n_objects * n_features
             \* entries on the d_encoding positions
             LET n_objects == values.shape[1]
                 n_features == values.shape[2]
             IN  IF n_objects * n_features # d_encoding
                 THEN Raise("IndexError", "The shape of the mask does not match the shape of the indexed tensor")
                 ELSE IF broadcast(d_encoding, Len(nonzero(indices.data))) < 0
                 THEN Raise("IndexError", "shape mismatch: indexing tensors could not be broadcast together")
                 ELSE Return(is_torch,
                             Tensor("torch", values.dtype, <<n_objects, n_features, d_encoding>>,
                                    [k \in 1..(n_objects * n_features * d_encoding) |->
                                        lvr_mask_entry(values, indices, left, right,
                                                       ((k - 1) \div (n_features * d_encoding)) + 1,
                                                       (((k - 1) \div d_encoding) % n_features) + 1,
                                                       (k - 1) % d_encoding)]))
        ELSE IF ~IsPositionDtype(indices.dtype)
        THEN \* encoding[..., indices.flatten()]: the index tensor must be integral
             Raise("IndexError", "tensors used as indices must be integer tensors")
        ELSE IF \E k \in DOMAIN indices.data : indices.data[k].n < -d_encoding
        THEN Raise("IndexError", "index out of range")
        ELSE LET n_objects == values.shape[1]
                 n_features == values.shape[2]
                 encoding ==
                     Tensor("torch", values.dtype, <<n_objects, n_features, d_encoding>>,
                            [k \in 1..(n_objects * n_features * d_encoding) |->
                                lvr_entry(values, indices, d_encoding, left, right,
                                          ((k - 1) \div (n_features * d_encoding)) + 1,
                                          (((k - 1) \div d_encoding) % n_features) + 1,
                                          (k - 1) % d_encoding)])
             IN  Return(is_torch, encoding)

\* The assignments into tensors of a call of _LVR_encoding: line 237 writes
\* the values into `encoding`, the result of torch.where, when the call
\* gets there without raising.
_LVR_encoding_writes(values0, indices0, d_encoding, left, right) ==
    LET encoding == _LVR_encoding(values0, indices0, d_encoding, left, right)
    IN  IF encoding.ok THEN <<Write(where_storage, encoding.out.data)>> ELSE <<>>

(***************************************************************************)
(* ordinal_binary_encoding                                                 *)
(***************************************************************************)
\* torch.full(shape, fill, dtype=dtype)
full(shape, fill, dtype) ==
    LET size == IF Len(shape) = 1 THEN shape[1] ELSE shape[1] * shape[2]
    IN  Tensor("torch", dtype, shape, [k \in 1..size |-> IntScalar(fill)])

ordinal_binary_encoding(indices0, d_encoding, dtype0) ==
    LET is_torch == isinstance_Tensor(indices0)
        indices == as_tensor(indices0)
        dtype == _get_torch_dtype(dtype0)
        cls == _get_scalar_class(dtype)
    IN  IF cls = "unsupported dtype"
        THEN Raise("ValueError", "unsupported dtype")
        ELSE LET encoding == _LVR_encoding(full(indices.shape, 1, dtype), indices,
                                           d_encoding, Scalar(cls, 1), Scalar(cls, 0))
             IN  IF encoding.ok THEN Return(is_torch, encoding.out) ELSE encoding

\* The assignments into tensors of a call of ordinal_binary_encoding: those
\* of _LVR_encoding, which it calls with torch.full(...) and the indices.
ordinal_binary_encoding_writes(indices0, d_encoding, dtype0) ==
    LET dtype == _get_torch_dtype(dtype0)
        cls == _get_scalar_class(dtype)
    IN  IF cls = "unsupported dtype" THEN <<>>
        ELSE _LVR_encoding_writes(full(indices0.shape, 1, dtype), as_tensor(indices0),
                                  d_encoding, Scalar(cls, 1), Scalar(cls, 0))

(***************************************************************************)
(* piecewise_linear_encoding (values of a floating-point dtype)            *)
(***************************************************************************)
\* t[mask] for a boolean mask: the mask's shape must be a prefix of t's.
mask_fits(mask_shape, shape) ==
    /\ Len(mask_shape) <= Len(shape)
    /\ \A i \in 1..Len(mask_shape) : mask_shape[i] = shape[i]

\* The mask entry that decides flat position k of a tensor of `shape`.
mask_at(mask, mask_shape, shape, k) ==
    IF Len(mask_shape) = Len(shape) THEN mask[k]
    ELSE mask[((k - 1) \div shape[2]) + 1]

\* bounds = torch.full_like(values, fill); bounds[mask] = relaxed
relaxed_bounds(values, mask, mask_shape, fill, relaxed) ==
    [k \in DOMAIN values.data |->
        IF mask_at(mask, mask_shape, values.shape, k) THEN relaxed ELSE IntScalar(fill)]

piecewise_linear_encoding(values0, indices0, d_encoding) ==
    LET is_torch == isinstance_Tensor(values0)
        values == as_tensor(values0)
        indices == as_tensor(indices0)
        is_first_bin == [k \in DOMAIN indices.data |-> indices.data[k] = IntScalar(0)]
        is_last_bin == [k \in DOMAIN indices.data |->
                           Add(indices.data[k], IntScalar(1)) = IntScalar(d_encoding)]
    IN  IF ~mask_fits(indices.shape, values.shape)
        THEN \* lower_bounds[is_first_bin] = -math.inf
             Raise("IndexError", "The shape of the mask does not match the shape of the indexed tensor")
        ELSE LET lower_bounds == relaxed_bounds(values, is_first_bin, indices.shape, 0, Neg(Inf))
                 upper_bounds == relaxed_bounds(values, is_last_bin, indices.shape, 1, Inf)
             IN  IF \E k \in DOMAIN values.data : Less(values.data[k], lower_bounds[k])
                 THEN Raise("ValueError", "values do not satisfy requirements for the piecewise linear encoding")
                 ELSE IF \E k \in DOMAIN values.data : Less(upper_bounds[k], values.data[k])
                 THEN Raise("ValueError", "values do not satisfy requirements for the piecewise linear encoding")
                 ELSE LET encoding == _LVR_encoding(values, indices, d_encoding,
                                                    PyScalar("float", IntScalar(1)),
                                                    PyScalar("float", IntScalar(0)))
                      IN  IF encoding.ok THEN Return(is_torch, encoding.out) ELSE encoding

\* The assignments into tensors of a call of piecewise_linear_encoding, in
\* program order: lower_bounds[is_first_bin] = -inf (line 308, before the
\* first check), upper_bounds[is_last_bin] = inf (line 315, when the first
\* check passed), then those of _LVR_encoding (when the second passed). The
\* bounds are tensors like `values`, which shares the caller's memory.
piecewise_linear_encoding_writes(values0, indices0, d_encoding) ==
    LET values == as_tensor(values0)
        indices == as_tensor(indices0)
        values_storage == as_tensor_storage("values")
        is_first_bin == [k \in DOMAIN indices.data |-> indices.data[k] = IntScalar(0)]
        is_last_bin == [k \in DOMAIN indices.data |->
                           Add(indices.data[k], IntScalar(1)) = IntScalar(d_encoding)]
    IN  IF ~mask_fits(indices.shape, values.shape) THEN <<>>
        ELSE LET lower_bounds == relaxed_bounds(values, is_first_bin, indices.shape, 0, Neg(Inf))
                 upper_bounds == relaxed_bounds(values, is_last_bin, indices.shape, 1, Inf)
                 lower == <<Write(like_storage(values_storage), lower_bounds)>>
                 upper == <<Write(like_storage(values_storage), upper_bounds)>>
             IN  IF \E k \in DOMAIN values.data : Less(values.data[k], lower_bounds[k])
                 THEN lower
                 ELSE IF \E k \in DOMAIN values.data : Less(upper_bounds[k], values.data[k])
                 THEN lower \o upper
                 ELSE lower \o upper
                      \o _LVR_encoding_writes(values, indices, d_encoding,
                                              PyScalar("float", IntScalar(1)),
                                              PyScalar("float", IntScalar(0)))

(***************************************************************************)
(* numpy on one column: np.unique, np.sort, np.linspace, np.quantile.      *)
(***************************************************************************)
\* Results of the functions that return a Python list: the list, and the
\* columns warnings.warn was called for, in order.
ReturnList(out, warned) ==
    [ok |-> TRUE, err |-> "none", msg |-> "", out |-> out, warned |-> warned]

RaiseAfter(err, msg, warned) ==
    [ok |-> FALSE, err |-> err, msg |-> msg, out |-> NoTensor, warned |-> warned]

\* X.T of an array: the columns of a 2-D array, the elements of a 1-D one.
Columns(X) ==
    IF ndim(X) = 2
    THEN [c \in 1..X.shape[2] |-> Column(X, c)]
    ELSE [c \in 1..X.shape[1] |-> <<X.data[c]>>]

Values(column) == {column[i] : i \in DOMAIN column}

RECURSIVE SortSet(_)
SortSet(S) ==
    IF S = {} THEN <<>>
    ELSE LET m == CHOOSE x \in S : \A y \in S : LessEq(x, y)
         IN  <<m>> \o SortSet(S \ {m})

\* np.unique(column): the sorted distinct values.
np_unique(column) == SortSet(Values(column))

\* column.min() and column.max()
ColumnMin(column) == CHOOSE v \in Values(column) : \A w \in Values(column) : LessEq(v, w)

ColumnMax(column) == CHOOSE v \in Values(column) : \A w \in Values(column) : LessEq(w, v)

\* np.sort(column): the values in order, duplicates kept.
np_sort(column) ==
    LET u == np_unique(column)
        Count(v) == Cardinality({i \in DOMAIN column : column[i] = v})
        Before(k) == Cardinality({i \in DOMAIN column : Less(column[i], u[k])})
    IN  [p \in 1..Len(column) |->
            u[CHOOSE k \in DOMAIN u : Before(k) < p /\ p <= Before(k) + Count(u[k])]]

\* np.linspace(0.0, 1.0, num): num evenly spaced points, both ends included.
linspace_0_1(num) == [i \in 1..num |-> Rat(i - 1, num - 1)]

\* np.quantile(column, q), linear interpolation between the two closest
\* order statistics: the virtual index is q * (n - 1).
quantile(column, q) ==
    LET a == np_sort(column)
        n == Len(a)
        virtual == Mul(q, IntScalar(n - 1))
        lo == virtual.n \div virtual.d
        hi == IF lo + 1 < n THEN lo + 1 ELSE n - 1
        gamma == Sub(virtual, IntScalar(lo))
    IN  Add(a[lo + 1], Mul(Sub(a[hi + 1], a[lo + 1]), gamma))

(***************************************************************************)
(* _adjust_bin_counts                                                      *)
(***************************************************************************)
Min(a, b) == IF a < b THEN a ELSE b

n_unique(column) == Len(np_unique(column))

\* adjusted_bin_counts.append(n_bins): the requested count, not clipped.
adjusted_count_unclipped(n_bins, column) == n_bins

\* adjusted_bin_counts.append(min(n_bins, n_unique))
adjusted_count(n_bins, column) == Min(n_bins, n_unique(column))

_adjust_bin_counts(X, n_bins) ==
    IF n_bins < 2
    THEN RaiseAfter("ValueError", "n_bins must be greater than 1", <<>>)
    ELSE LET columns == Columns(X)
             constant == {i \in DOMAIN columns : n_unique(columns[i]) < 2}
             \* the loop stops at the first constant column
             last == IF constant = {} THEN Len(columns)
                     ELSE (CHOOSE i \in constant : \A j \in constant : i <= j) - 1
             Warns(i) == n_unique(columns[i + 1]) < n_bins
             warned == SelectSeq([i \in 1..last |-> i - 1], Warns)
         IN  IF constant # {}
             THEN RaiseAfter("ValueError", "All elements in the column are the same", warned)
             ELSE ReturnList([i \in DOMAIN columns |-> adjusted_count(n_bins, columns[i])],
                             warned)

(***************************************************************************)
(* compute_quantile_bin_edges                                              *)
(***************************************************************************)
\* np.quantile(column, quantiles) of one column, duplicates kept
quantile_edges_raw(column, adjusted_n_bins) ==
    LET quantiles == linspace_0_1(adjusted_n_bins + 1)
    IN  [i \in DOMAIN quantiles |-> quantile(column, quantiles[i])]

\* np.unique(np.quantile(column, quantiles)) of one column
quantile_edges(column, adjusted_n_bins) ==
    LET quantiles == linspace_0_1(adjusted_n_bins + 1)
    IN  np_unique([i \in DOMAIN quantiles |-> quantile(column, quantiles[i])])

compute_quantile_bin_edges(X, n_bins) ==
    IF ndim(X) # 2
    THEN RaiseAfter("ValueError", "X must have two dimensions", <<>>)
    ELSE LET adjusted_bin_counts == _adjust_bin_counts(X, n_bins)
         IN  IF ~adjusted_bin_counts.ok
             THEN adjusted_bin_counts
             ELSE ReturnList([c \in 1..X.shape[2] |->
                                 quantile_edges(Column(X, c), adjusted_bin_counts.out[c])],
                             adjusted_bin_counts.warned)

(***************************************************************************)
(* sklearn.tree: the estimator a column is fit with, and the tree_ it      *)
(* builds.  The library chooses the splits; the model keeps every choice   *)
(* it can make from the arguments it is given.                             *)
(***************************************************************************)
\* A Python dict: the set of its items.
Keys(dict) == {item.key : item \in dict}

Item(key, value) == [key |-> key, value |-> value]

\* sklearn's sentinels: the child pointers and the threshold of a leaf.
TREE_LEAF == -1

TREE_UNDEFINED == IntScalar(-2)

\* The candidate thresholds of a column: the midpoints of adjacent distinct
\* values.
Midpoints(column) ==
    LET u == np_unique(column)
    IN  {Div(Add(u[i], u[i + 1]), IntScalar(2)) : i \in 1..(Len(u) - 1)}

\* The tree_ of a single leaf.
LeafTree ==
    [node_count |-> 1, children_left |-> <<TREE_LEAF>>, children_right |-> <<TREE_LEAF>>,
     threshold |-> <<TREE_UNDEFINED>>]

\* The trees the best-first builder can grow from a tree and its frontier.
\* The builder is the one sklearn uses when max_leaf_nodes is given: it takes
\* a node off the frontier (the one of the greatest impurity improvement,
\* here any), and either leaves it a leaf or splits it at a candidate
\* threshold m[i] of the node's interval, adding both children (ids
\* node_count and node_count + 1) to the tree and to the frontier. A node
\* at max_depth, or taken when max_split_nodes are used up, stays a leaf.
RECURSIVE BestFirstTrees(_, _, _, _, _)
BestFirstTrees(tree, frontier, m, max_split_nodes, max_depth) ==
    IF frontier = {} THEN {tree}
    ELSE UNION {
        LET rest == frontier \ {record}
            k == record.node_id + 1
            n == tree.node_count
            can_split == max_split_nodes > 0 /\ record.depth < max_depth
            split(i) ==
                [node_count |-> n + 2,
                 children_left |->
                     [tree.children_left EXCEPT ![k] = n] \o <<TREE_LEAF, TREE_LEAF>>,
                 children_right |->
                     [tree.children_right EXCEPT ![k] = n + 1] \o <<TREE_LEAF, TREE_LEAF>>,
                 threshold |->
                     [tree.threshold EXCEPT ![k] = m[i]] \o <<TREE_UNDEFINED, TREE_UNDEFINED>>]
            children(i) ==
                {[node_id |-> n, depth |-> record.depth + 1, lo |-> record.lo, hi |-> i - 1],
                 [node_id |-> n + 1, depth |-> record.depth + 1, lo |-> i + 1, hi |-> record.hi]}
        IN  BestFirstTrees(tree, rest, m, max_split_nodes, max_depth)
            \cup UNION {BestFirstTrees(split(i), rest \cup children(i), m,
                                       max_split_nodes - 1, max_depth) :
                            i \in IF can_split THEN record.lo..record.hi ELSE {}}
        : record \in frontier}

\* The value of a parameter of the estimator, default when it is not given.
Param(params, key, default) ==
    IF key \in Keys(params) THEN (CHOOSE item \in params : item.key = key).value ELSE default

\* Estimator(**params).fit(column.reshape(-1, 1), y).tree_: every tree the
\* best-first builder can grow from the root, with at most max_leaf_nodes
\* leaves and a depth of at most max_depth; no split when y has one value.
DecisionTree_fit(params, column, y) ==
    LET m == SortSet(Midpoints(column))
        root == [node_id |-> 0, depth |-> 0, lo |-> 1, hi |-> Len(m)]
    IN  IF Cardinality(Values(y)) < 2 THEN {LeafTree}
        ELSE BestFirstTrees(LeafTree, {root}, m,
                            Param(params, "max_leaf_nodes", Len(column)) - 1,
                            Param(params, "max_depth", Len(column)))

(***************************************************************************)
(* compute_decision_tree_bin_edges                                         *)
(***************************************************************************)
\* Results: the edges or the exception, and the estimators that were fit.
TreeResult(r, fits) ==
    [ok |-> r.ok, err |-> r.err, msg |-> r.msg, out |-> r.out, warned |-> r.warned,
     fits |-> fits]

\* max_leaf_nodes = n_bins + 1, the number of edges instead of bins.
estimator_params_edges(adjusted_n_bins, tree_kwargs) ==
    tree_kwargs \cup {Item("max_leaf_nodes", adjusted_n_bins + 1)}

\* (max_leaf_nodes=adjusted_n_bins, **tree_kwargs)
estimator_params(adjusted_n_bins, tree_kwargs) ==
    tree_kwargs \cup {Item("max_leaf_nodes", adjusted_n_bins)}

\* DecisionTreeRegressor if regression else DecisionTreeClassifier
estimator_class(regression) ==
    IF regression THEN "DecisionTreeRegressor" ELSE "DecisionTreeClassifier"

\* Every node counts, leaves included.
is_node(tree, node_id) == TRUE

\* tree.children_left[node_id] != tree.children_right[node_id]
is_split(tree, node_id) ==
    tree.children_left[node_id + 1] # tree.children_right[node_id + 1]

\* np.array(sorted(set(tree_thresholds))) of one column
tree_edges(tree, column) ==
    LET tree_thresholds ==
            {tree.threshold[node_id + 1] :
                node_id \in {id \in 0..(tree.node_count - 1) : is_split(tree, id)}}
    IN  SortSet(tree_thresholds \cup {ColumnMin(column), ColumnMax(column)})

\* The results the call can have, one for each choice of the fitted trees.
compute_decision_tree_bin_edges(X, n_bins, y, regression, tree_kwargs) ==
    IF ndim(X) # 2
    THEN {TreeResult(RaiseAfter("ValueError", "X must have two dimensions", <<>>), <<>>)}
    ELSE IF X.shape[1] # Len(y)
    THEN {TreeResult(RaiseAfter("ValueError", "X and y have different first dimensions", <<>>), <<>>)}
    ELSE IF "max_leaf_nodes" \in Keys(tree_kwargs)
    THEN {TreeResult(RaiseAfter("ValueError", "Do not include max_leaf_nodes in tree_kwargs (it will be set equal to n_bins automatically).", <<>>), <<>>)}
    ELSE LET adjusted_bin_counts == _adjust_bin_counts(X, n_bins) IN
         IF ~adjusted_bin_counts.ok
         THEN {TreeResult(adjusted_bin_counts, <<>>)}
         ELSE LET n_columns == X.shape[2]
                  params(c) == estimator_params(adjusted_bin_counts.out[c], tree_kwargs)
                  trees(c) == DecisionTree_fit(params(c), Column(X, c), y)
                  fittings ==
                      {f \in [1..n_columns -> UNION {trees(c) : c \in 1..n_columns}] :
                          \A c \in 1..n_columns : f[c] \in trees(c)}
              IN  {TreeResult(
                      ReturnList([c \in 1..n_columns |-> tree_edges(f[c], Column(X, c))],
                                 adjusted_bin_counts.warned),
                      [c \in 1..n_columns |->
                          [estimator |-> estimator_class(regression),
                           params |-> params(c),
                           column |-> Column(X, c),
                           y |-> y,
                           tree |-> f[c]]]) : f \in fittings}

(***************************************************************************)
(* get_category_sizes                                                      *)
(***************************************************************************)
\* `return sizes`
ReturnValue(out) == [ok |-> TRUE, err |-> "none", msg |-> "", out |-> out]

\* issubclass(X.dtype.type, np.signedinteger)
is_signedinteger(dtype) == dtype \in {"int8", "int16", "int32", "int64"}

\* The range check left out: any maximum passes.
covers_range_unchecked(unique_values) == TRUE

\* not (max_value + 1 != len(unique_values))
covers_range(unique_values) ==
    LET max_value == unique_values[Len(unique_values)]
    IN  Add(max_value, IntScalar(1)) = IntScalar(Len(unique_values))

\* What the loop body does for one column: the message of the exception it
\* raises, or "" when it appends the size.
category_column_error(column) ==
    LET unique_values == np_unique(column)
        min_value == unique_values[1]
    IN  IF min_value # IntScalar(0)
        THEN "The minimum value of the column must be zero."
        ELSE IF ~covers_range(unique_values)
        THEN "The values of the column do not fully cover the range from zero to maximum_value"
        ELSE ""

get_category_sizes(X) ==
    IF ndim(X) # 2
    THEN Raise("ValueError", "X must be two-dimensional")
    ELSE IF ~is_signedinteger(X.dtype)
    THEN Raise("ValueError", "X data type must be integer")
    ELSE LET failing == {c \in 1..X.shape[2] : category_column_error(Column(X, c)) # ""}
         IN  IF failing # {}
             THEN LET c == CHOOSE c \in failing : \A c2 \in failing : c <= c2
                  IN  Raise("ValueError", category_column_error(Column(X, c)))
             ELSE ReturnValue([c \in 1..X.shape[2] |-> Len(np_unique(Column(X, c)))])

(***************************************************************************)
(* rtdl.nn.Transformer: the argument checks of the constructor, the blocks *)
(* it builds, and the shape of x through forward.  Optional arguments are  *)
(* None or Some(value); a tensor is represented by its shape.              *)
(***************************************************************************)
None == [some |-> FALSE]

Some(v) == [some |-> TRUE, value |-> v]

\* all_or_none(values)
all_or_none(values) ==
    \/ \A i \in DOMAIN values : values[i] = None
    \/ \A i \in DOMAIN values : values[i] # None

INTERNAL_ERROR_MESSAGE == "Internal error. Please, open an issue."

\* The attributes `self` has while __init__ runs, after super().__init__():
\* those of the class and of nn.Module; __init__ assigns blocks, pooling and
\* head only at lines 559-604.
SelfAttributes == {"WARNINGS", "Block", "Head", "make_baseline", "forward", "training"}

\* The argument checks of lines 511-530, which come before any warning: the
\* message of the ValueError, or "" when they all pass.
early_argument_error(c) ==
    IF c.n_blocks < 1
    THEN "n_blocks must be positive"
    ELSE IF c.pooling = Some("cls") /\ c.cls_token_index = None
    THEN "if pooling == cls, then cls_token_index must be provided"
    ELSE IF c.pooling # Some("cls") /\ c.last_block_cls_only
    THEN "if pooling != cls, then last_block_cls_only must be False"
    ELSE IF c.pooling \notin {Some("cls"), Some("avg")}
    THEN "pooling must be one of: ['cls', 'avg']"
    ELSE IF ~all_or_none(<<c.d_out, c.pooling, c.head_activation, c.head_normalization>>)
    THEN "The arguments d_out, pooling, head_activation and head_normalization must be either all None or all not-None"
    ELSE ""

\* The argument checks of lines 511-543: the message of the ValueError, or ""
\* when they all pass. The last check (line 540) comes after the
\* prenormalization warning.
argument_error(c) ==
    IF early_argument_error(c) # ""
    THEN early_argument_error(c)
    ELSE IF ~c.prenormalization /\ c.first_prenormalization
    THEN "If prenormalization is False, then first_prenormalization must be False"
    ELSE ""

\* cls_token_index of block block_idx (lines 584-588)
block_cls_token_index(c, block_idx) ==
    IF c.last_block_cls_only /\ block_idx = c.n_blocks - 1 THEN c.cls_token_index ELSE None

\* The attributes lines 559-604 assign: the blocks, pooling and the head.
Transformer_attributes(c) ==
    [blocks |-> [k \in 1..c.n_blocks |->
                    [prenormalization |-> c.prenormalization,
                     cls_token_index |-> block_cls_token_index(c, k - 1)]],
     pooling |-> c.pooling,
     head |-> IF c.d_out = None THEN None
              ELSE Some([d_out |-> c.d_out.value, activation |-> c.head_activation,
                         normalization |-> IF c.prenormalization THEN c.head_normalization
                                           ELSE Some("Identity")])]

\* Transformer.WARNINGS as the class defines it; its entries can be set to
\* False to turn a warning off.
WARNINGS == [first_prenormalization |-> TRUE, prenormalization |-> TRUE]

\* The warnings of lines 531-556, by the key of WARNINGS that enables them.
init_warnings(c, warnings) ==
    (IF ~c.prenormalization /\ warnings.prenormalization
     THEN <<"prenormalization">> ELSE <<>>)
    \o (IF c.prenormalization /\ c.first_prenormalization /\ warnings.first_prenormalization
        THEN <<"first_prenormalization">> ELSE <<>>)

\* The call waits in time.sleep(3) (line 557) after its second warning.
init_sleeps(c, warnings) ==
    c.prenormalization /\ c.first_prenormalization /\ warnings.first_prenormalization

\* A call that has not returned yet, and the warnings it has emitted.
Pending(warned) ==
    [ok |-> FALSE, err |-> "none", msg |-> "", out |-> NoTensor, warned |-> warned]

\* Lines 510-557: the ValueError of an argument check, raised before any
\* warning by the checks of lines 511-530 and after the prenormalization
\* warning by the check of line 540, or the call going on.
Transformer_check(c, warnings) ==
    IF early_argument_error(c) # ""
    THEN RaiseAfter("ValueError", early_argument_error(c), <<>>)
    ELSE IF argument_error(c) # ""
    THEN RaiseAfter("ValueError", argument_error(c), init_warnings(c, warnings))
    ELSE Pending(init_warnings(c, warnings))

\* Lines 559-604: the first block reads self.prenormalization (line 567),
\* which no statement has assigned.
Transformer_build(c, warned) ==
    IF "prenormalization" \notin SelfAttributes
    THEN RaiseAfter("AttributeError",
                    "'Transformer' object has no attribute 'prenormalization'", warned)
    ELSE ReturnList(Transformer_attributes(c), warned)

\* Transformer(**c), from the call to its return.
Transformer_init(c, warnings) ==
    LET checked == Transformer_check(c, warnings)
    IN  IF checked.err # "none" THEN checked ELSE Transformer_build(c, checked.warned)

\* _is_reglu(module), for a module given by its name
_is_reglu(module) == module = "ReGLU"

\* The keyword arguments Transformer.make_baseline calls Transformer with.
make_baseline_config(a) ==
    [d_out |-> a.d_out,
     n_blocks |-> a.n_blocks,
     prenormalization |-> TRUE,
     first_prenormalization |-> FALSE,
     pooling |-> a.pooling,
     cls_token_index |-> a.cls_token_index,
     last_block_cls_only |-> a.last_block_cls_only,
     head_activation |-> Some(IF _is_reglu(a.activation) THEN "ReLU" ELSE a.activation),
     head_normalization |-> Some("LayerNorm")]

\* Transformer.make_baseline(**a)
make_baseline(a, warnings) == Transformer_init(make_baseline_config(a), warnings)

\* The number of elements t[start:stop] keeps of n.
slice_size(start, stop, n) ==
    LET Clip(i) == IF i < 0 THEN (IF i + n < 0 THEN 0 ELSE i + n) ELSE Min(i, n)
    IN  IF Clip(stop) > Clip(start) THEN Clip(stop) - Clip(start) ELSE 0

\* self.attention(x_q, x_kv): one output token per query token; what the
\* module does without a query token is not known.
MultiheadAttention_forward(x_q, x_kv) ==
    IF x_q[2] >= 1
    THEN {ReturnValue(x_q)}
    ELSE {ReturnValue(x_q), Raise("RuntimeError", "attention without query tokens")}

\* Block.forward on the shape of x: the attention stage keeps every token,
\* or only x[:, cls_idx]; normalization, ffn, dropout and the skip connection
\* keep the shape.
Block_forward(block, x) ==
    IF block.cls_token_index = None
    THEN MultiheadAttention_forward(x, x)
    ELSE LET idx == block.cls_token_index.value
             x_cls == <<x[1], slice_size(idx, idx + 1, x[2]), x[3]>>
         IN  MultiheadAttention_forward(x_cls, x)

\* self.blocks(x), from block i on
RECURSIVE Sequential_forward(_, _, _)
Sequential_forward(blocks, i, x) ==
    IF i > Len(blocks) THEN {ReturnValue(x)}
    ELSE UNION {IF r.ok THEN Sequential_forward(blocks, i + 1, r.out) ELSE {r} :
                    r \in Block_forward(blocks[i], x)}

\* Lines 658-667 on the output x of the blocks.
pool_and_head(self, x) ==
    LET head(pooled) ==
            IF self.head = None THEN ReturnValue(pooled)
            ELSE ReturnValue(<<pooled[1], self.head.value.d_out>>)
    IN  IF self.pooling = Some("cls")
        THEN IF x[2] # 1 THEN Raise("AssertionError", INTERNAL_ERROR_MESSAGE)
             ELSE head(<<x[1], x[3]>>)
        ELSE IF self.pooling = Some("avg")
        THEN head(<<x[1], x[3]>>)
        ELSE Raise("AssertionError", INTERNAL_ERROR_MESSAGE)

\* Transformer.forward(x): the results it can have on a module with the
\* attributes `self`. No action calls it: no call of the constructor returns
\* a module (Transformer_build).
Transformer_forward(self, x) ==
    IF Len(x) # 3
    THEN {Raise("AssertionError", "The input must have 3 dimensions: (n_objects, n_tokens, d_embedding)")}
    ELSE {IF r.ok THEN pool_and_head(self, r.out) ELSE r :
              r \in Sequential_forward(self.blocks, 1, x)}

(***************************************************************************)
(* The arguments the calls are made with.                                  *)
(***************************************************************************)
Backends == {"numpy", "torch"}

Shapes2D == {<<1, 1>>, <<1, 2>>, <<2, 1>>}

Size(shape) == IF Len(shape) = 1 THEN shape[1] ELSE shape[1] * shape[2]

TensorsOf(backend, dtype, shape, scalars) ==
    {Tensor(backend, dtype, shape, data) : data \in [1..Size(shape) -> scalars]}

\* Feature values, integer payloads, bin indices, fractional payloads.
XScalars == {IntScalar(v) : v \in -1..MaxVal}

IdxScalars == {IntScalar(i) : i \in -MaxIdx..MaxIdx}

BinScalars == {IntScalar(i) : i \in 0..MaxBins}

HalfScalars == {Rat(k, 2) : k \in -1..MaxVal}

\* The strictly increasing edge sequences over 0 .. MaxVal - 1.
SortedSeq(S) ==
    CHOOSE s \in [1..Cardinality(S) -> S] : \A i, j \in 1..Cardinality(S) : i < j => s[i] < s[j]

EdgeSeqs ==
    {[i \in 1..Cardinality(S) |-> IntScalar(SortedSeq(S)[i])] :
        S \in {T \in SUBSET (0..(MaxVal - 1)) : Cardinality(T) >= 2 /\ Cardinality(T) <= MaxBins + 1}}

\* The edges 0, 1, ..., n_bins of each length.
UnitEdgeSeqs == {[i \in 1..(n + 1) |-> IntScalar(i - 1)] : n \in 1..MaxBins}

StrictlyIncreasing(edges) ==
    \A i, j \in DOMAIN edges : i < j => Less(edges[i], edges[j])

Fills ==
    {[left |-> Scalar(l, 1), right |-> Scalar(r, 0)] : l \in {"int", "float"}, r \in {"int", "float"}}

PayloadsOf(dtype) == IF dtype = "int64" THEN XScalars ELSE HalfScalars

\* A dtype argument: a torch.dtype or a numpy scalar class, by its name.
DtypeArgs ==
    {[family |-> "torch", name |-> "float32"], [family |-> "torch", name |-> "int64"],
     [family |-> "numpy", name |-> "float64"], [family |-> "numpy", name |-> "int64"],
     [family |-> "torch", name |-> "uint8"], [family |-> "torch", name |-> "bool"]}

\* compute_bin_indices(X, bin_edges): a 2-D floating X with one edge sequence
\* per column; or an integer X, a 1-D X, a wrong number of edge sequences.
Init_compute_bin_indices ==
    /\ op = "compute_bin_indices"
    /\ \E b \in Backends :
        \/ \E shape \in Shapes2D :
            \E X \in TensorsOf(b, "float32", shape, XScalars), e \in [1..shape[2] -> EdgeSeqs] :
                args = [X |-> X, bin_edges |-> e]
        \/ \E X \in TensorsOf(b, "int64", <<1, 1>>, XScalars) \cup TensorsOf(b, "float32", <<1>>, XScalars),
              e \in [1..1 -> EdgeSeqs] :
                args = [X |-> X, bin_edges |-> e]
        \/ \E X \in TensorsOf(b, "float32", <<1, 1>>, XScalars), e \in [1..2 -> UnitEdgeSeqs] :
                args = [X |-> X, bin_edges |-> e]
        \/ \E X \in TensorsOf(b, "float32", <<1, 2>>, XScalars), e \in [1..1 -> UnitEdgeSeqs] :
                args = [X |-> X, bin_edges |-> e]

\* compute_piecewise_linear_bin_values(X, indices, bin_edges): X and indices
\* of one 2-D shape with one edge sequence per column and any indices; or a
\* 1-D X, indices of another shape, a wrong number of edge sequences.
Init_compute_piecewise_linear_bin_values ==
    /\ op = "compute_piecewise_linear_bin_values"
    /\ \E b \in Backends :
        \/ \E shape \in Shapes2D :
            \E X \in TensorsOf(b, "float32", shape, XScalars),
               indices \in TensorsOf(b, "int64", shape, IdxScalars),
               e \in [1..shape[2] -> IF shape[2] = 1 THEN EdgeSeqs ELSE UnitEdgeSeqs] :
                args = [X |-> X, indices |-> indices, bin_edges |-> e]
        \/ \E xs \in {<< <<1>>, <<1>>, 1 >>, << <<1, 1>>, <<1, 2>>, 1 >>,
                      << <<1, 1>>, <<2, 1>>, 1 >>, << <<1, 1>>, <<1, 1>>, 2 >>} :
            \E X \in TensorsOf(b, "float32", xs[1], XScalars),
               indices \in TensorsOf(b, "int64", xs[2], BinScalars),
               e \in [1..xs[3] -> UnitEdgeSeqs] :
                args = [X |-> X, indices |-> indices, bin_edges |-> e]

\* _LVR_encoding(values, indices, d_encoding, left, right): integer or
\* floating values, indices in 0 .. MaxBins of the same or of another shape.
Init_LVR_encoding ==
    /\ op = "_LVR_encoding"
    /\ \E b \in Backends, dtype \in {"float32", "int64"},
          xs \in {<<s, s>> : s \in Shapes2D} \cup {<< <<1>>, <<1>> >>, << <<1, 1>>, <<1, 2>> >>} :
        \E values \in TensorsOf(b, dtype, xs[1], PayloadsOf(dtype)),
           indices \in TensorsOf(b, "int64", xs[2], BinScalars),
           d \in 1..MaxBins, f \in Fills :
            args = [values |-> values, indices |-> indices, d_encoding |-> d,
                    left |-> f.left, right |-> f.right]

Init_ordinal_binary_encoding ==
    /\ op = "ordinal_binary_encoding"
    /\ \E b \in Backends, shape \in Shapes2D \cup {<<1>>} :
        \E indices \in TensorsOf(b, "int64", shape, BinScalars), d \in 1..MaxBins, dt \in DtypeArgs :
            args = [indices |-> indices, d_encoding |-> d, dtype |-> dt]

Init_piecewise_linear_encoding ==
    /\ op = "piecewise_linear_encoding"
    /\ \E b \in Backends,
          xs \in {<<s, s>> : s \in Shapes2D}
                 \cup {<< <<1>>, <<1>> >>, << <<1, 1>>, <<1, 2>> >>, << <<1, 2>>, <<1>> >>} :
        \E values \in TensorsOf(b, "float32", xs[1], HalfScalars),
           indices \in TensorsOf(b, "int64", xs[2], BinScalars),
           d \in 1..MaxBins :
            args = [values |-> values, indices |-> indices, d_encoding |-> d]

\* The shapes of the matrices the edges are computed from.
FitShapes == {<<2, 1>>, <<3, 1>>, <<2, 2>>}

\* _adjust_bin_counts(X, n_bins): a 2-D X and any n_bins in 1 .. MaxBins + 1.
Init_adjust_bin_counts ==
    /\ op = "_adjust_bin_counts"
    /\ \E shape \in FitShapes :
        \E X \in TensorsOf("numpy", "float64", shape, XScalars), n_bins \in 1..(MaxBins + 1) :
            args = [X |-> X, n_bins |-> n_bins]

\* compute_quantile_bin_edges(X, n_bins): a 2-D or a 1-D X.
Init_compute_quantile_bin_edges ==
    /\ op = "compute_quantile_bin_edges"
    /\ \E shape \in FitShapes \cup {<<2>>} :
        \E X \in TensorsOf("numpy", "float64", shape, XScalars), n_bins \in 1..(MaxBins + 1) :
            args = [X |-> X, n_bins |-> n_bins]

\* Values of the features a tree is fit on, the targets y (a first label 0,
\* one target per row of X or one too many), and the tree_kwargs.
TreeScalars == {IntScalar(v) : v \in 0..(MaxVal - 1)}

Targets == {y \in [1..2 -> {0, 1}] \cup [1..3 -> {0, 1}] : y[1] = 0}

TreeKwargs == {{}, {Item("max_depth", 1)}, {Item("max_leaf_nodes", 2)}}

\* compute_decision_tree_bin_edges(X, n_bins, y=, regression=, tree_kwargs=)
Init_compute_decision_tree_bin_edges ==
    /\ op = "compute_decision_tree_bin_edges"
    /\ \E shape \in FitShapes \cup {<<2>>} :
        \E X \in TensorsOf("numpy", "float64", shape, TreeScalars), n_bins \in 1..(MaxBins + 1),
           y \in Targets, regression \in BOOLEAN, tree_kwargs \in TreeKwargs :
            args = [X |-> X, n_bins |-> n_bins, y |-> y, regression |-> regression,
                    tree_kwargs |-> tree_kwargs]

\* The matrix of the docstring of get_category_sizes.
ExampleCategories ==
    Tensor("numpy", "int64", <<3, 3>>,
           [k \in 1..9 |-> IntScalar(<<0, 0, 0, 1, 0, 0, 2, 1, 0>>[k])])

\* get_category_sizes(X): a signed integer matrix, the docstring's matrix, an
\* unsigned or a floating matrix, a 1-D array.
Init_get_category_sizes ==
    /\ op = "get_category_sizes"
    /\ \/ \E shape \in FitShapes \cup {<<2>>} :
            \E X \in TensorsOf("numpy", "int64", shape, XScalars) : args = [X |-> X]
       \/ args = [X |-> ExampleCategories]
       \/ \E dtype \in {"uint8", "float64"} :
            \E X \in TensorsOf("numpy", dtype, <<2, 1>>, BinScalars) : args = [X |-> X]

\* The keyword arguments of Transformer(...) that its checks and the shape
\* of its output depend on.
Configs ==
    [d_out : {None, Some(1)},
     n_blocks : 0..MaxBlocks,
     prenormalization : BOOLEAN,
     first_prenormalization : BOOLEAN,
     pooling : {None, Some("cls"), Some("avg"), Some("max")},
     cls_token_index : {None, Some(0), Some(-1)},
     last_block_cls_only : BOOLEAN,
     head_activation : {None, Some("ReLU")},
     head_normalization : {None, Some("LayerNorm")}]

\* Transformer.WARNINGS at the time of a call: as defined, or with warnings
\* turned off.
WarningSettings == [first_prenormalization : BOOLEAN, prenormalization : BOOLEAN]

Init_Transformer_init ==
    /\ op = "Transformer.__init__"
    /\ \E c \in Configs, w \in WarningSettings : args = [config |-> c, WARNINGS |-> w]

\* Transformer.make_baseline(...): the arguments it passes on.
Init_make_baseline ==
    /\ op = "Transformer.make_baseline"
    /\ \E d_out \in {None, Some(1)}, n_blocks \in 0..MaxBlocks,
          activation \in {"ReLU", "ReGLU"},
          pooling \in {None, Some("cls"), Some("avg"), Some("max")},
          cls_token_index \in {None, Some(0), Some(-1)},
          last_block_cls_only \in BOOLEAN :
        args = [d_out |-> d_out, n_blocks |-> n_blocks, activation |-> activation,
                pooling |-> pooling, cls_token_index |-> cls_token_index,
                last_block_cls_only |-> last_block_cls_only]

\* The training data a pipeline run keeps: X and its edges.
NoData == [X |-> NoTensor, bin_edges |-> <<>>]

(***************************************************************************)
(* The state machine.                                                      *)
(***************************************************************************)
Init ==
    /\ pc = "call"
    /\ ret = NoResult
    /\ fitted = NoData
    /\ \/ Init_compute_bin_indices
       \/ Init_compute_piecewise_linear_bin_values
       \/ Init_LVR_encoding
       \/ Init_ordinal_binary_encoding
       \/ Init_piecewise_linear_encoding
       \/ Init_adjust_bin_counts
       \/ Init_compute_quantile_bin_edges
       \/ Init_compute_decision_tree_bin_edges
       \/ Init_get_category_sizes
       \/ Init_Transformer_init
       \/ Init_make_baseline

\* compute_bin_indices and compute_piecewise_linear_bin_values hold no
\* assignment into a tensor (lines 103-171): their results are built by
\* torch.bucketize, torch.cat, indexing, arithmetic and torch.stack.
Call_compute_bin_indices ==
    /\ pc = "call" /\ op = "compute_bin_indices"
    /\ ret' = compute_bin_indices(args.X, args.bin_edges)
    /\ pc' = "done"
    /\ UNCHANGED <<op, args, fitted>>

Call_compute_piecewise_linear_bin_values ==
    /\ pc = "call" /\ op = "compute_piecewise_linear_bin_values"
    /\ ret' = compute_piecewise_linear_bin_values(args.X, args.indices, args.bin_edges)
    /\ pc' = "done"
    /\ UNCHANGED <<op, args, fitted>>

Call_LVR_encoding ==
    /\ pc = "call" /\ op = "_LVR_encoding"
    /\ ret' = _LVR_encoding(args.values, args.indices, args.d_encoding, args.left, args.right)
    /\ LET writes == _LVR_encoding_writes(args.values, args.indices, args.d_encoding,
                                          args.left, args.right)
       IN  args' = [args EXCEPT !.values = Written("values", @, writes),
                                !.indices = Written("indices", @, writes)]
    /\ pc' = "done"
    /\ UNCHANGED <<op, fitted>>

Call_ordinal_binary_encoding ==
    /\ pc = "call" /\ op = "ordinal_binary_encoding"
    /\ ret' = ordinal_binary_encoding(args.indices, args.d_encoding, args.dtype)
    /\ LET writes == ordinal_binary_encoding_writes(args.indices, args.d_encoding, args.dtype)
       IN  args' = [args EXCEPT !.indices = Written("indices", @, writes)]
    /\ pc' = "done"
    /\ UNCHANGED <<op, fitted>>

Call_piecewise_linear_encoding ==
    /\ pc = "call" /\ op = "piecewise_linear_encoding"
    /\ ret' = piecewise_linear_encoding(args.values, args.indices, args.d_encoding)
    /\ LET writes == piecewise_linear_encoding_writes(args.values, args.indices, args.d_encoding)
       IN  args' = [args EXCEPT !.values = Written("values", @, writes),
                                !.indices = Written("indices", @, writes)]
    /\ pc' = "done"
    /\ UNCHANGED <<op, fitted>>

Call_adjust_bin_counts ==
    /\ pc = "call" /\ op = "_adjust_bin_counts"
    /\ ret' = _adjust_bin_counts(args.X, args.n_bins)
    /\ pc' = "done"
    /\ UNCHANGED <<op, args, fitted>>

Call_compute_quantile_bin_edges ==
    /\ pc = "call" /\ op = "compute_quantile_bin_edges"
    /\ ret' = compute_quantile_bin_edges(args.X, args.n_bins)
    /\ pc' = "done"
    /\ UNCHANGED <<op, args, fitted>>

Call_compute_decision_tree_bin_edges ==
    /\ pc = "call" /\ op = "compute_decision_tree_bin_edges"
    /\ ret' \in compute_decision_tree_bin_edges(args.X, args.n_bins, args.y,
                                                args.regression, args.tree_kwargs)
    /\ pc' = "done"
    /\ UNCHANGED <<op, args, fitted>>

Call_get_category_sizes ==
    /\ pc = "call" /\ op = "get_category_sizes"
    /\ ret' = get_category_sizes(args.X)
    /\ pc' = "done"
    /\ UNCHANGED <<op, args, fitted>>

\* Transformer(...) up to its return, or up to time.sleep(3) of line 557.
Call_Transformer_init ==
    /\ pc = "call" /\ op = "Transformer.__init__"
    /\ LET checked == Transformer_check(args.config, args.WARNINGS)
       IN  IF checked.err = "none" /\ init_sleeps(args.config, args.WARNINGS)
           THEN ret' = checked /\ pc' = "sleep"
           ELSE ret' = Transformer_init(args.config, args.WARNINGS) /\ pc' = "done"
    /\ UNCHANGED <<op, args, fitted>>

\* time.sleep(3) returns; the call goes on with lines 559-604.
Wake_Transformer_init ==
    /\ pc = "sleep" /\ op = "Transformer.__init__"
    /\ ret' = Transformer_build(args.config, ret.warned)
    /\ pc' = "done"
    /\ UNCHANGED <<op, args, fitted>>

Call_make_baseline ==
    /\ pc = "call" /\ op = "Transformer.make_baseline"
    /\ ret' = make_baseline(args, WARNINGS)
    /\ pc' = "done"
    /\ UNCHANGED <<op, args, fitted>>

\* The caller passes the indices compute_bin_indices returned, with the same
\* X and edges, to compute_piecewise_linear_bin_values.
PassIndices ==
    /\ pc = "done" /\ op = "compute_bin_indices" /\ ret.ok
    /\ op' = "compute_piecewise_linear_bin_values"
    /\ args' = [X |-> args.X, indices |-> ret.out, bin_edges |-> args.bin_edges]
    /\ fitted' = [X |-> args.X, bin_edges |-> args.bin_edges]
    /\ pc' = "call"
    /\ ret' = NoResult

\* The caller passes the values compute_piecewise_linear_bin_values returned,
\* with the indices they were computed from, to piecewise_linear_encoding;
\* d_encoding is the number of bins of a column.
PassValues ==
    /\ pc = "done" /\ op = "compute_piecewise_linear_bin_values" /\ ret.ok
    /\ fitted # NoData
    /\ \E c \in DOMAIN fitted.bin_edges :
          args' = [values |-> ret.out, indices |-> args.indices,
                   d_encoding |-> Len(fitted.bin_edges[c]) - 1]
    /\ op' = "piecewise_linear_encoding"
    /\ pc' = "call"
    /\ ret' = NoResult
    /\ UNCHANGED fitted

Next ==
    \/ Call_compute_bin_indices
    \/ Call_compute_piecewise_linear_bin_values
    \/ Call_LVR_encoding
    \/ Call_ordinal_binary_encoding
    \/ Call_piecewise_linear_encoding
    \/ Call_adjust_bin_counts
    \/ Call_compute_quantile_bin_edges
    \/ Call_compute_decision_tree_bin_edges
    \/ Call_get_category_sizes
    \/ Call_Transformer_init
    \/ Wake_Transformer_init
    \/ Call_make_baseline
    \/ PassIndices
    \/ PassValues

Spec == Init /\ [][Next]_vars

(***************************************************************************)
(* Properties.                                                             *)
(***************************************************************************)
Done(f) == pc = "done" /\ op = f

Zero == IntScalar(0)

One == IntScalar(1)

\* The rows and columns of a 2-D tensor.
Rows(t) == 1..t.shape[1]

Cols(t) == 1..t.shape[2]

\* Bin i (0-based) of an edge sequence: [lo, hi), open-ended at both extremes.
Lo(edges, i) == IF i = 0 THEN Neg(Inf) ELSE edges[i + 1]

Hi(edges, i) == IF i = Len(edges) - 2 THEN Inf ELSE edges[i + 2]

InBin(x, edges, i) == LessEq(Lo(edges, i), x) /\ Less(x, Hi(edges, i))

ValidEdges(bin_edges) ==
    \A c \in DOMAIN bin_edges : Len(bin_edges[c]) >= 2 /\ StrictlyIncreasing(bin_edges[c])

\* C3: for a 2-D floating-point X of finite values and strictly increasing
\* edge sequences of length >= 2, one per column, compute_bin_indices returns
\* for each entry x of column c the unique i in [0, len(edges_c)-2] with
\* lo(i) <= x < hi(i), lo(0) = -inf and hi(len(edges_c)-2) = +inf: a value on
\* an interior edge goes to that edge's bin, a value outside the edges to the
\* first or the last bin, and the call does not fail.
C3_BinIndices ==
    (/\ Done("compute_bin_indices")
     /\ ndim(args.X) = 2
     /\ IsFloatDtype(args.X.dtype)
     /\ args.X.shape[2] = Len(args.bin_edges)
     /\ ValidEdges(args.bin_edges))
    => /\ ret.ok
       /\ ret.out.shape = args.X.shape
       /\ \A o \in Rows(args.X), c \in Cols(args.X) :
            LET x == At(args.X, o, c)
                edges == args.bin_edges[c]
                i == At(ret.out, o, c)
            IN  /\ IsInteger(i)
                /\ i.n \in 0..(Len(edges) - 2)
                /\ InBin(x, edges, i.n)
                /\ \A j \in 0..(Len(edges) - 2) : InBin(x, edges, j) => j = i.n

\* C3's case: a value equal to an interior edge edges[i] got bin i, and a
\* value below the first edge got bin 0.
C3_Witness ==
    /\ Done("compute_bin_indices")
    /\ ret.ok
    /\ \E o \in Rows(args.X), c \in Cols(args.X) :
        \E i \in 1..(Len(args.bin_edges[c]) - 2) :
            /\ At(args.X, o, c) = args.bin_edges[c][i + 1]
            /\ At(ret.out, o, c) = IntScalar(i)
    /\ \E o \in Rows(args.X), c \in Cols(args.X) :
            /\ Less(At(args.X, o, c), args.bin_edges[c][1])
            /\ At(ret.out, o, c) = Zero

\* The arguments of compute_piecewise_linear_bin_values are valid: X and
\* indices of one 2-D shape, one edge sequence per column, every index a bin.
ValidBinValuesCall ==
    /\ ndim(args.X) = 2
    /\ args.X.shape = args.indices.shape
    /\ args.X.shape[2] = Len(args.bin_edges)
    /\ ValidEdges(args.bin_edges)
    /\ \A o \in Rows(args.X), c \in Cols(args.X) :
            At(args.indices, o, c).n \in 0..(Len(args.bin_edges[c]) - 2)

\* C4: on valid input compute_piecewise_linear_bin_values returns for every
\* entry exactly v = (x - edges[i]) / (edges[i+1] - edges[i]), i the entry's
\* index, stated as v * (edges[i+1] - edges[i]) = x - edges[i]; nothing is
\* clamped: v < 0 when x < edges[i] and v > 1 when x > edges[i+1].
C4_BinValues ==
    (Done("compute_piecewise_linear_bin_values") /\ ValidBinValuesCall)
    => /\ ret.ok
       /\ ret.out.shape = args.X.shape
       /\ \A o \in Rows(args.X), c \in Cols(args.X) :
            LET x == At(args.X, o, c)
                i == At(args.indices, o, c).n
                l == args.bin_edges[c][i + 1]
                r == args.bin_edges[c][i + 2]
                v == At(ret.out, o, c)
            IN  /\ IsFinite(v)
                /\ Mul(v, Sub(r, l)) = Sub(x, l)
                /\ Less(x, l) => Less(v, Zero)
                /\ Less(r, x) => Less(One, v)

\* C4's case: a valid call returned a value below 0 and a value above 1.
C4_Witness ==
    /\ Done("compute_piecewise_linear_bin_values")
    /\ ValidBinValuesCall
    /\ ret.ok
    /\ \E k \in DOMAIN ret.out.data : Less(ret.out.data[k], Zero)
    /\ \E k \in DOMAIN ret.out.data : Less(One, ret.out.data[k])

\* C9: the values compute_piecewise_linear_bin_values computes from the
\* indices compute_bin_indices assigned with the same edges lie in [0, 1] in
\* an interior bin, are <= 1 in the first bin and >= 0 in the last bin; a
\* column of a single bin is unconstrained.
C9_ValueDomain ==
    (Done("compute_piecewise_linear_bin_values") /\ fitted # NoData)
    => /\ ret.ok
       /\ \A o \in Rows(args.X), c \in Cols(args.X) :
            LET i == At(args.indices, o, c).n
                last == Len(args.bin_edges[c]) - 2
                v == At(ret.out, o, c)
            IN  /\ (0 < i /\ i < last) => (LessEq(Zero, v) /\ LessEq(v, One))
                /\ (i = 0 /\ last > 0) => LessEq(v, One)
                /\ (i = last /\ last > 0) => LessEq(Zero, v)

\* C9's case: in one pipeline run a value of an interior bin, a value < 0 of
\* the first bin and a value > 1 of the last bin.
C9_Witness ==
    /\ Done("compute_piecewise_linear_bin_values")
    /\ fitted # NoData
    /\ ret.ok
    /\ \E o \in Rows(args.X), c \in Cols(args.X) :
            /\ 0 < At(args.indices, o, c).n
            /\ At(args.indices, o, c).n < Len(args.bin_edges[c]) - 2
    /\ \E o \in Rows(args.X), c \in Cols(args.X) :
            \/ /\ At(args.indices, o, c) = Zero
               /\ Len(args.bin_edges[c]) > 2
               /\ Less(At(ret.out, o, c), Zero)
            \/ /\ At(args.indices, o, c).n = Len(args.bin_edges[c]) - 2
               /\ Len(args.bin_edges[c]) > 2
               /\ Less(One, At(ret.out, o, c))

\* C10: compute_piecewise_linear_bin_values fails (by the claim, with a
\* ValueError) and returns no values whenever X is not 2-D, X and indices
\* differ in shape, the number of columns differs from the number of edge
\* sequences, or some index of column c lies outside [0, len(bin_edges[c])-2],
\* too large or negative.
C10_RejectsInvalid ==
    (/\ Done("compute_piecewise_linear_bin_values")
     /\ \/ ndim(args.X) # 2
        \/ args.X.shape # args.indices.shape
        \/ args.X.shape[2] # Len(args.bin_edges)
        \/ \E o \in Rows(args.X), c \in Cols(args.X) :
                At(args.indices, o, c).n \notin 0..(Len(args.bin_edges[c]) - 2))
    => ~ret.ok

\* The fills have one class, the class of the values' element type.
FillsMatch(left, right, dtype) ==
    /\ left.type = right.type
    /\ (left.type = "float") = IsFloatDtype(dtype)
    /\ (left.type = "int") = IsIntDtype(dtype)

\* The arguments of _LVR_encoding are valid.
ValidLVRCall ==
    /\ ndim(args.values) = 2
    /\ args.values.shape = args.indices.shape
    /\ \A k \in DOMAIN args.indices.data : args.indices.data[k].n \in 0..(args.d_encoding - 1)
    /\ FillsMatch(args.left, args.right, args.values.dtype)

\* `encoding` is the left-value-right encoding of (values, indices): of shape
\* (n_objects, n_features, d_encoding), with `left` before position
\* indices[o, f], values[o, f] at it and `right` after it.
IsLVREncoding(encoding, values, indices, d_encoding, left, right) ==
    /\ encoding.shape = <<values.shape[1], values.shape[2], d_encoding>>
    /\ Len(encoding.data) = values.shape[1] * values.shape[2] * d_encoding
    /\ \A o \in Rows(values), f \in Cols(values), p \in 0..(d_encoding - 1) :
        LET e == encoding.data[((o - 1) * values.shape[2] + (f - 1)) * d_encoding + p + 1]
            i == At(indices, o, f).n
        IN  /\ p < i => e = left
            /\ p = i => e = At(values, o, f)
            /\ p > i => e = right

\* C1: on valid input _LVR_encoding returns the tensor of shape (n_objects,
\* n_features, d_encoding) whose slot (o, f) holds `left` before position
\* indices[o, f], values[o, f] at it and `right` after it.
C1_LVREncoding ==
    (Done("_LVR_encoding") /\ ValidLVRCall)
    => /\ ret.ok
       /\ IsLVREncoding(ret.out, args.values, args.indices, args.d_encoding,
                        args.left.val, args.right.val)

\* C2: for 2-D indices in [0, d_encoding-1] and an integer or floating dtype,
\* ordinal_binary_encoding returns the encoding of shape (n_objects,
\* n_features, d_encoding) with 1 at the positions <= indices[o, f] and 0 at
\* the positions after it.
C2_OrdinalEncoding ==
    (/\ Done("ordinal_binary_encoding")
     /\ ndim(args.indices) = 2
     /\ \A k \in DOMAIN args.indices.data : args.indices.data[k].n \in 0..(args.d_encoding - 1)
     /\ (IsFloatDtype(args.dtype.name) \/ IsIntDtype(args.dtype.name)))
    => /\ ret.ok
       /\ IsLVREncoding(ret.out, full(args.indices.shape, 1, args.dtype.name), args.indices,
                        args.d_encoding, One, Zero)

\* C5: in a pipeline run (indices from compute_bin_indices, values from
\* compute_piecewise_linear_bin_values, d_encoding the number of bins of
\* every column) piecewise_linear_encoding succeeds, and the entry e at
\* position indices[o, f] of slot (o, f) gives back X[o, f]:
\* edges[i] + e * (edges[i+1] - edges[i]) = X[o, f].
C5_RoundTrip ==
    (/\ Done("piecewise_linear_encoding")
     /\ fitted # NoData
     /\ \A c \in DOMAIN fitted.bin_edges : Len(fitted.bin_edges[c]) - 1 = args.d_encoding)
    => /\ ret.ok
       /\ ret.out.shape = <<fitted.X.shape[1], fitted.X.shape[2], args.d_encoding>>
       /\ \A o \in Rows(fitted.X), c \in Cols(fitted.X) :
            LET i == At(args.indices, o, c).n
                l == fitted.bin_edges[c][i + 1]
                r == fitted.bin_edges[c][i + 2]
                e == ret.out.data[((o - 1) * fitted.X.shape[2] + (c - 1)) * args.d_encoding + i + 1]
            IN  Add(l, Mul(e, Sub(r, l))) = At(fitted.X, o, c)

\* Some value is below 0 outside the first bin, or above 1 outside the last.
OutsideDomain(values, indices, d_encoding) ==
    \E k \in DOMAIN values.data :
        \/ Less(values.data[k], Zero) /\ indices.data[k] # Zero
        \/ Less(One, values.data[k]) /\ indices.data[k].n + 1 # d_encoding

\* C6: for values and indices of one 2-D shape with indices in
\* [0, d_encoding-1], piecewise_linear_encoding fails exactly when some value
\* is < 0 outside the first bin or > 1 outside the last bin; on any other
\* input it returns the left-value-right encoding with left 1.0, right 0.0.
C6_EncodingDomain ==
    (/\ Done("piecewise_linear_encoding")
     /\ ndim(args.values) = 2
     /\ args.values.shape = args.indices.shape
     /\ \A k \in DOMAIN args.indices.data : args.indices.data[k].n \in 0..(args.d_encoding - 1))
    => /\ ~ret.ok <=> OutsideDomain(args.values, args.indices, args.d_encoding)
       /\ ret.ok => IsLVREncoding(ret.out, args.values, args.indices, args.d_encoding, One, Zero)

\* C7: the fill check of _LVR_encoding rejects a call (ValueError on the
\* fills' types) exactly when left and right differ in type or their type is
\* not the class of the values' element type: float fills pass with floating
\* values, int fills pass with integer values.
C7_FillCheck ==
    Done("_LVR_encoding")
    => ((/\ ~ret.ok
         /\ ret.msg \in {"left and right must be of the same type",
                         "The values array has dtype incompatible with left and right"})
        <=> ~FillsMatch(args.left, args.right, args.values.dtype))

\* The arguments of an encoder are invalid: the values matrix is not 2-D,
\* values and indices differ in shape, or an entry of indices is >= d_encoding.
InvalidLVRArguments(values_shape, indices, d_encoding) ==
    \/ Len(values_shape) # 2
    \/ values_shape # indices.shape
    \/ \E k \in DOMAIN indices.data : indices.data[k].n >= d_encoding

\* C8: _LVR_encoding, and piecewise_linear_encoding and
\* ordinal_binary_encoding through it, fail with no output whenever the values
\* matrix is not 2-D, values and indices differ in shape, or some entry of
\* the indices argument is >= d_encoding, whatever the payload values are
\* (the values of ordinal_binary_encoding are ones of the shape of indices).
C8_ShapeAndBound ==
    /\ (/\ (Done("_LVR_encoding") \/ Done("piecewise_linear_encoding"))
         /\ InvalidLVRArguments(args.values.shape, args.indices, args.d_encoding))
        => ~ret.ok /\ ret.out = NoTensor
    /\ (/\ Done("ordinal_binary_encoding")
         /\ InvalidLVRArguments(args.indices.shape, args.indices, args.d_encoding))
        => ~ret.ok /\ ret.out = NoTensor

\* A call of _LVR_encoding with matching fills and 2-D matrices of one shape,
\* an index that is >= d_encoding and payload values that are all below it:
\* the call fails.
C8_Witness ==
    /\ Done("_LVR_encoding")
    /\ FillsMatch(args.left, args.right, args.values.dtype)
    /\ ndim(args.values) = 2
    /\ args.values.shape = args.indices.shape
    /\ \E k \in DOMAIN args.indices.data : args.indices.data[k].n >= args.d_encoding
    /\ \A k \in DOMAIN args.values.data :
          Less(args.values.data[k], IntScalar(args.d_encoding))
    /\ ~ret.ok
    /\ ret.out = NoTensor

(***************************************************************************)
(* Bin edges: bin-count adjustment and quantile edges.                     *)
(***************************************************************************)
Distinct(column) == Cardinality(Values(column))



\* A 2-D X with n_bins >= 2 and no constant column.
Adjustable(X, n_bins) ==
    /\ ndim(X) = 2
    /\ n_bins >= 2
    /\ \A c \in 1..X.shape[2] : Distinct(Column(X, c)) >= 2

\* The columns (numbered from 0) with fewer distinct values than n_bins.
ColumnsBelow(X, n_bins) ==
    {c - 1 : c \in {c \in 1..X.shape[2] : Distinct(Column(X, c)) < n_bins}}

\* C12: _adjust_bin_counts fails for n_bins < 2 and for a column with fewer
\* than 2 distinct values; otherwise the count of each column is
\* min(n_bins, distinct count), and a column is warned about exactly when its
\* distinct count is below n_bins, the call still returning (edges, when the
\* caller is an edge strategy).
C12_AdjustBinCounts ==
    /\ Done("_adjust_bin_counts") =>
        /\ args.n_bins < 2 => ~ret.ok /\ ret.err = "ValueError"
        /\ (\E c \in 1..args.X.shape[2] : Distinct(Column(args.X, c)) < 2)
              => ~ret.ok /\ ret.err = "ValueError"
        /\ Adjustable(args.X, args.n_bins) =>
              /\ ret.ok
              /\ Len(ret.out) = args.X.shape[2]
              /\ \A c \in 1..args.X.shape[2] :
                    ret.out[c] = Min(args.n_bins, Distinct(Column(args.X, c)))
              /\ Values(ret.warned) = ColumnsBelow(args.X, args.n_bins)
    /\ Done("compute_quantile_bin_edges") /\ Adjustable(args.X, args.n_bins) =>
        /\ ret.ok
        /\ Len(ret.out) = args.X.shape[2]
        /\ Values(ret.warned) = ColumnsBelow(args.X, args.n_bins)
    /\ /\ Done("compute_decision_tree_bin_edges")
       /\ Adjustable(args.X, args.n_bins)
       /\ args.X.shape[1] = Len(args.y)
       /\ "max_leaf_nodes" \notin Keys(args.tree_kwargs)
       => /\ ret.ok
          /\ Len(ret.out) = args.X.shape[2]
          /\ Values(ret.warned) = ColumnsBelow(args.X, args.n_bins)

\* A call that warns about a column and returns the clipped count.
C12_Witness ==
    /\ Done("_adjust_bin_counts")
    /\ ret.ok
    /\ args.n_bins = 3
    /\ ret.warned = <<0>>
    /\ ret.out = <<2>>

\* C11: for a 2-D X, n_bins >= 2 and no constant column, the quantile edges
\* of each column are strictly increasing, at least 2 and at most
\* min(n_bins, distinct count) + 1 of them, from the column minimum to the
\* column maximum.
C11_QuantileEdges ==
    Done("compute_quantile_bin_edges") /\ Adjustable(args.X, args.n_bins) =>
        /\ ret.ok
        /\ Len(ret.out) = args.X.shape[2]
        /\ \A c \in 1..args.X.shape[2] :
            LET edges == ret.out[c]
                column == Column(args.X, c)
            IN  /\ StrictlyIncreasing(edges)
                /\ Len(edges) >= 2
                /\ Len(edges) <= Min(args.n_bins, Distinct(column)) + 1
                /\ edges[1] = ColumnMin(column)
                /\ edges[Len(edges)] = ColumnMax(column)

\* Three distinct values and three bins: the two inner edges are interpolated
\* between the values.
C11_Witness ==
    /\ Done("compute_quantile_bin_edges")
    /\ Adjustable(args.X, args.n_bins)
    /\ args.X.shape = <<3, 1>>
    /\ args.n_bins = 3
    /\ Len(ret.out[1]) = 4
    /\ \E i \in DOMAIN ret.out[1] : ~IsInteger(ret.out[1][i])

(***************************************************************************)
(* Bin edges from decision trees.                                          *)
(***************************************************************************)
\* The thresholds of the nodes of a tree_ whose two children differ.
SplitThresholds(tree) ==
    {tree.threshold[k] : k \in {k \in 1..tree.node_count :
                                    tree.children_left[k] # tree.children_right[k]}}

\* C13: the edges of a column are exactly the split thresholds of its tree
\* united with the column minimum and maximum, sorted and without
\* duplicates (strictly increasing); the threshold of a leaf is not among
\* them (the feature values are >= 0 here, the sentinel of a leaf is -2).
C13_TreeEdges ==
    Done("compute_decision_tree_bin_edges") /\ ret.ok =>
        /\ Len(ret.out) = args.X.shape[2]
        /\ \A c \in 1..args.X.shape[2] :
            LET edges == ret.out[c]
                column == Column(args.X, c)
                tree == ret.fits[c].tree
            IN  /\ Values(edges) = SplitThresholds(tree) \cup {ColumnMin(column), ColumnMax(column)}
                /\ StrictlyIncreasing(edges)
                /\ TREE_UNDEFINED \notin Values(edges)

\* A tree with two splits and three leaves: four edges.
C13_Witness ==
    /\ Done("compute_decision_tree_bin_edges")
    /\ ret.ok
    /\ ret.fits[1].tree.node_count = 5
    /\ Cardinality(SplitThresholds(ret.fits[1].tree)) = 2
    /\ Len(ret.out[1]) = 4

\* C14: the call fails without fitting a tree when tree_kwargs has
\* max_leaf_nodes, when X is not 2-D, when X and y differ in their number of
\* rows; when trees are fit, the tree of column c gets max_leaf_nodes =
\* min(n_bins, distinct count of c) and the items of tree_kwargs as they are.
C14_TreeArguments ==
    Done("compute_decision_tree_bin_edges") =>
        /\ \/ "max_leaf_nodes" \in Keys(args.tree_kwargs)
           \/ ndim(args.X) # 2
           \/ args.X.shape[1] # Len(args.y)
           => ~ret.ok /\ ret.err = "ValueError" /\ ret.fits = <<>>
        /\ ret.fits # <<>> =>
            /\ Len(ret.fits) = args.X.shape[2]
            /\ \A c \in 1..args.X.shape[2] :
                LET fit == ret.fits[c]
                    column == Column(args.X, c)
                IN  /\ fit.column = column
                    /\ fit.y = args.y
                    /\ {item \in fit.params : item.key = "max_leaf_nodes"}
                          = {Item("max_leaf_nodes", Min(args.n_bins, Distinct(column)))}
                    /\ {item \in fit.params : item.key # "max_leaf_nodes"} = args.tree_kwargs

\* A column of three distinct values fit with max_leaf_nodes = n_bins = 3 and
\* the max_depth of tree_kwargs.
C14_Witness ==
    /\ Done("compute_decision_tree_bin_edges")
    /\ ret.ok
    /\ args.n_bins = 3
    /\ args.tree_kwargs = {Item("max_depth", 1)}
    /\ Len(ret.fits) = 1
    /\ Distinct(ret.fits[1].column) = 3
    /\ Param(ret.fits[1].params, "max_leaf_nodes", 0) = 3

(***************************************************************************)
(* Category sizes.                                                         *)
(***************************************************************************)
\* The values of the column are exactly 0, 1, ..., k - 1.
IsZeroBasedRange(column, k) == Values(column) = {IntScalar(i) : i \in 0..(k - 1)}

SignedMatrix(X) == ndim(X) = 2 /\ X.dtype = "int64"

\* C15: on a 2-D signed integer X, get_category_sizes returns exactly when
\* the values of every column are 0 .. k - 1 for a k >= 1, and then returns
\* per column k = distinct count = maximum + 1 ([3, 2, 1] for the matrix of
\* the docstring); it fails, with no output, for a column minimum other than
\* 0, for a maximum + 1 other than the distinct count, for an X that is not
\* 2-D and for an element type that is not a signed integer.
C15_CategorySizes ==
    Done("get_category_sizes") =>
        /\ SignedMatrix(args.X) =>
            /\ ret.ok <=> \A c \in Cols(args.X) :
                              \E k \in Rows(args.X) : IsZeroBasedRange(Column(args.X, c), k)
            /\ ret.ok =>
                /\ Len(ret.out) = args.X.shape[2]
                /\ \A c \in Cols(args.X) :
                    /\ IsZeroBasedRange(Column(args.X, c), ret.out[c])
                    /\ ret.out[c] = Distinct(Column(args.X, c))
                    /\ ret.out[c] = ColumnMax(Column(args.X, c)).n + 1
            /\ (\E c \in Cols(args.X) : ColumnMin(Column(args.X, c)) # Zero) => ~ret.ok
            /\ (\E c \in Cols(args.X) :
                    ColumnMax(Column(args.X, c)).n + 1 # Distinct(Column(args.X, c))) => ~ret.ok
        /\ ndim(args.X) # 2 => ~ret.ok
        /\ args.X.dtype # "int64" => ~ret.ok
        /\ ~ret.ok => ret.err = "ValueError" /\ ret.out = NoTensor
        /\ args.X = ExampleCategories => ret.ok /\ ret.out = <<3, 2, 1>>

\* The matrix of the docstring and its sizes.
C15_Witness ==
    /\ Done("get_category_sizes")
    /\ args.X = ExampleCategories
    /\ ret.out = <<3, 2, 1>>

(***************************************************************************)
(* The two backends.                                                       *)
(***************************************************************************)
\* The same numbers in the other representation.
OtherBackend(t) ==
    [t EXCEPT !.backend = IF t.backend = "numpy" THEN "torch" ELSE "numpy"]

\* What a call gives, apart from the representation: the exception, or the
\* element type, shape and values of the output.
Outcome(r) ==
    [ok |-> r.ok, err |-> r.err, msg |-> r.msg,
     dtype |-> r.out.dtype, shape |-> r.out.shape, data |-> r.out.data]

\* The result r of a call on the input t, and the result r2 of the same call
\* on the other representation of its inputs.
Dual(t, r, r2) ==
    /\ Outcome(r) = Outcome(r2)
    /\ r.ok => r.out.backend = t.backend
    /\ r2.ok => r2.out.backend = OtherBackend(t).backend

\* C16: each of the four operations gives, on arrays and on tensors of the
\* same numbers, the same values or the same failure, and returns an array
\* for arrays and a tensor for tensors.
C16_BackendDuality ==
    /\ Done("compute_bin_indices") =>
          Dual(args.X, ret, compute_bin_indices(OtherBackend(args.X), args.bin_edges))
    /\ Done("compute_piecewise_linear_bin_values") =>
          Dual(args.X, ret,
               compute_piecewise_linear_bin_values(OtherBackend(args.X),
                                                   OtherBackend(args.indices), args.bin_edges))
    /\ Done("ordinal_binary_encoding") =>
          Dual(args.indices, ret,
               ordinal_binary_encoding(OtherBackend(args.indices), args.d_encoding, args.dtype))
    /\ Done("piecewise_linear_encoding") =>
          Dual(args.values, ret,
               piecewise_linear_encoding(OtherBackend(args.values),
                                         OtherBackend(args.indices), args.d_encoding))

\* Bin values computed from arrays and returned as an array, with a value
\* inside and a value outside of the unit interval.
C16_Witness ==
    /\ Done("compute_piecewise_linear_bin_values")
    /\ args.X.backend = "numpy"
    /\ ret.ok
    /\ ret.out.backend = "numpy"
    /\ ret.out.shape = <<2, 1>>
    /\ ret.out.data[1] = Rat(1, 2)
    /\ Less(One, ret.out.data[2])

(***************************************************************************)
(* The caller's data.                                                      *)
(***************************************************************************)
PipelineOps ==
    {"compute_bin_indices", "compute_piecewise_linear_bin_values",
     "piecewise_linear_encoding", "ordinal_binary_encoding"}

\* C17: a call of one of the four operations, returning or raising, leaves
\* the matrices and edge sequences it was given, and the X and edges the
\* caller keeps, as they were (its assignments into tensors go to memory the
\* call allocated); a call that raises has no output.
C17_InputsUnchanged ==
    [][pc = "call" /\ pc' = "done" /\ op \in PipelineOps =>
          /\ args' = args
          /\ fitted' = fitted
          /\ op' = op
          /\ ~ret'.ok => ret'.out = NoTensor]_vars

\* Three calls in sequence on the same X and edges, the last of them
\* raising: indices, values, then the encoding, which has assigned -inf and
\* inf into its bounds (an index is 0, the first and the last bin) while the
\* values the caller gave are still finite and not the bounds 0 and 1.
C17_Witness ==
    /\ Done("piecewise_linear_encoding")
    /\ fitted # NoData
    /\ fitted.X.shape = <<2, 1>>
    /\ args.d_encoding = 1
    /\ Len(piecewise_linear_encoding_writes(args.values, args.indices, args.d_encoding)) = 2
    /\ \E k \in DOMAIN args.indices.data :
          /\ args.indices.data[k] = Zero
          /\ IsFinite(args.values.data[k])
          /\ args.values.data[k] \notin {Zero, One}
    /\ ~ret.ok
    /\ ret.out = NoTensor

(***************************************************************************)
(* Transformer.                                                            *)
(***************************************************************************)
HeadArguments(c) == <<c.d_out, c.pooling, c.head_activation, c.head_normalization>>

AllNone(c) == \A i \in 1..4 : HeadArguments(c)[i] = None

AllNotNone(c) == \A i \in 1..4 : HeadArguments(c)[i] # None

\* What the other checks of the constructor ask for; a pooling of None is
\* taken to be the backbone-only configuration.
OtherArgumentsValid(c) ==
    /\ c.n_blocks >= 1
    /\ c.pooling \in {None, Some("cls"), Some("avg")}
    /\ c.pooling = Some("cls") => c.cls_token_index # None
    /\ c.pooling # Some("cls") => ~c.last_block_cls_only
    /\ ~c.prenormalization => ~c.first_prenormalization

\* C18: the constructor accepts d_out, pooling, head_activation and
\* head_normalization that are all None or all not None, no other check
\* rejecting the all-None configuration, and raises ValueError for every
\* mixed combination.
C18_AllOrNone ==
    Done("Transformer.__init__") =>
        /\ ~AllNone(args.config) /\ ~AllNotNone(args.config) => ~ret.ok /\ ret.err = "ValueError"
        /\ (AllNone(args.config) \/ AllNotNone(args.config)) /\ OtherArgumentsValid(args.config) => ret.ok

\* No call of the constructor, direct or through make_baseline, returns an
\* instance: Transformer.forward has no object to be called on.
NoInstance ==
    (Done("Transformer.__init__") \/ Done("Transformer.make_baseline")) => ~ret.ok

=============================================================================
